---------------------------- MODULE Spec2Model ----------------------------
(***************************************************************************)
(* A model of the command execution orchestrator of mcp-ai-terminal        *)
(* (src/mcp-ai-terminal-server.py, class AISafeTerminalServer): the        *)
(* classifier, the routing of execute, the bounded executor, the           *)
(* background launcher and the two readers, over a file store of logs and  *)
(* pid markers and an OS process table.                                    *)
(*                                                                         *)
(* Text is a sequence of one-character strings.  A log is a sequence of    *)
(* entries <<kind, call>>, one entry per block the code writes.  Time is   *)
(* counted in whole seconds, the resolution of int(time.time()).           *)
(***************************************************************************)
EXTENDS Integers, Sequences, FiniteSets, TLC

VARIABLES
    now,      \* wall clock, whole seconds (int(time.time()))
    calls,    \* the execute calls made so far, one record per invocation
    files,    \* output_dir/*.log: log name -> content (a sequence of entries)
    markers,  \* output_dir/*.pid: log name -> content of the matching .pid file
    order,    \* the existing logs, most recently modified first (os.path.getmtime)
    ptable,   \* the OS process table: pid -> occupant
    rd        \* the reader call in progress (check_status or get_context)

vars == <<now, calls, files, markers, order, ptable, rd>>

----------------------------------------------------------------------------
(* Bounds of the model.                                                    *)

\* the number of execute calls in one behaviour
MaxCalls == 2
\* the clock stops being read at MaxTime: calls are submitted before it
MaxTime == 2
\* the number of pieces a command of the classifier's input set is built from
MaxPieces == 3
\* the number of blocks of output a background job writes to its log
MaxOut == 1
\* the number of execute calls in a behaviour that also holds reader calls
MaxReadCalls == 1
\* the logs that earlier runs of the server left in the output directory
MaxOld == 8

----------------------------------------------------------------------------
(* Text.                                                                   *)

UpperChars == <<"A","B","C","D","E","F","G","H","I","J","K","L","M",
                "N","O","P","Q","R","S","T","U","V","W","X","Y","Z">>
LowerChars == <<"a","b","c","d","e","f","g","h","i","j","k","l","m",
                "n","o","p","q","r","s","t","u","v","w","x","y","z">>
Digits == {"0","1","2","3","4","5","6","7","8","9"}
Whitespace == {" ", "\t", "\n"}

Range(s) == {s[k] : k \in 1..Len(s)}

\* str.lower() on one character
LowerChar(c) ==
    IF \E k \in 1..26 : UpperChars[k] = c
    THEN LowerChars[CHOOSE k \in 1..26 : UpperChars[k] = c]
    ELSE c

\* command.lower()
lower(s) == [k \in 1..Len(s) |-> LowerChar(s[k])]

\* c.isalnum()
isalnum(c) == c \in Range(UpperChars) \cup Range(LowerChars) \cup Digits

\* pattern in text
In(pattern, text) ==
    \E k \in 0..(Len(text) - Len(pattern)) :
        SubSeq(text, k + 1, k + Len(pattern)) = pattern

\* command.split(): the maximal runs of non-whitespace, scanned left to right
RECURSIVE SplitFrom(_, _, _)
SplitFrom(s, k, tok) ==
    IF k > Len(s)
    THEN IF tok = <<>> THEN <<>> ELSE <<tok>>
    ELSE IF s[k] \in Whitespace
         THEN IF tok = <<>>
              THEN SplitFrom(s, k + 1, <<>>)
              ELSE <<tok>> \o SplitFrom(s, k + 1, <<>>)
         ELSE SplitFrom(s, k + 1, Append(tok, s[k]))

split(s) == SplitFrom(s, 1, <<>>)

RECURSIVE Flatten(_)
Flatten(ss) == IF ss = <<>> THEN <<>> ELSE Head(ss) \o Flatten(Tail(ss))

----------------------------------------------------------------------------
(* Configuration (AISafeTerminalServer.__init__).                          *)

safe_timeout == 8

test_patterns ==
    << <<"t","e","s","t">>, <<"j","u","n","i","t">>, <<"p","y","t","e","s","t">>,
       <<"j","e","s","t">>, <<"m","o","c","h","a">>, <<"r","s","p","e","c">> >>
build_patterns ==
    << <<"b","u","i","l","d">>, <<"c","o","m","p","i","l","e">>, <<"m","a","k","e">>,
       <<"g","r","a","d","l","e">>, <<"m","a","v","e","n">>,
       <<"n","p","m"," ","r","u","n"," ","b","u","i","l","d">> >>
long_patterns ==
    << <<"i","n","s","t","a","l","l">>, <<"d","o","w","n","l","o","a","d">>,
       <<"s","y","n","c">>, <<"c","l","o","n","e">>, <<"p","u","l","l">>,
       <<"p","u","s","h">> >>

\* any(pattern in cmd_lower for pattern in patterns)
any_in(patterns, cmd_lower) == \E k \in 1..Len(patterns) : In(patterns[k], cmd_lower)

----------------------------------------------------------------------------
(* The classifier and the routing of execute.                              *)

Categories == {"test", "build", "long", "complex", "quick"}

\* classify_command with the build keywords tried before the test keywords
classify_command_build_first(command) ==
    LET cmd_lower == lower(command) IN
    IF any_in(build_patterns, cmd_lower) THEN "build"
    ELSE IF any_in(test_patterns, cmd_lower) THEN "test"
    ELSE IF any_in(long_patterns, cmd_lower) THEN "long"
    ELSE IF Len(split(command)) > 5 THEN "complex"
    ELSE "quick"

classify_command(command) ==
    LET cmd_lower == lower(command) IN
    IF any_in(test_patterns, cmd_lower) THEN "test"
    ELSE IF any_in(build_patterns, cmd_lower) THEN "build"
    ELSE IF any_in(long_patterns, cmd_lower) THEN "long"
    ELSE IF Len(split(command)) > 5 THEN "complex"
    ELSE "quick"

\* An optional argument is <<>> when the caller leaves it out, <<v>> otherwise.
\* args.get(key, default)
Get(opt, default) == IF opt = <<>> THEN default ELSE opt[1]

\* the routing with "long" left out of the list
to_background_no_long(force_background, cmd_type) ==
    force_background \/ cmd_type \in {"test", "build"}

\* if force_background or cmd_type in ["test", "build", "long"]
to_background(force_background, cmd_type) ==
    force_background \/ cmd_type \in {"test", "build", "long"}

\* the timeout as supplied, the default only when none is supplied
effective_timeout_raw(custom_timeout) == Get(custom_timeout, safe_timeout)

\* timeout = custom_timeout or self.safe_timeout  (None and 0 are falsy)
effective_timeout(custom_timeout) ==
    IF custom_timeout = <<>> \/ custom_timeout[1] = 0
    THEN safe_timeout
    ELSE custom_timeout[1]

\* "".join(c for c in command[:20] if c.isalnum() or c in "_-")
safe_name(command) ==
    SelectSeq(SubSeq(command, 1, IF Len(command) < 20 THEN Len(command) ELSE 20),
              LAMBDA c : isalnum(c) \/ c \in {"_", "-"})

\* output_dir / f"safe_{timestamp}.log"
safe_log(timestamp) == <<"safe", timestamp, <<>> >>
\* output_dir / f"bg_{timestamp}_{safe_name}.log"; the .pid file has the same stem
bg_log(timestamp, command) == <<"bg", timestamp, safe_name(command)>>

\* The shell line of execute_background is
\*     {command} > {output_file} 2>&1 & echo $!
\* In sh the redirection and the & bind to the last command of a ; list, so
\* the parts of `command` before its last ; run in the foreground of the
\* launching shell, writing to the pipe that execute_background reads.
has_foreground_part(command) == ";" \in Range(command)

----------------------------------------------------------------------------
(* The file store and the process table.                                   *)

Pids == 1..MaxCalls
Free == <<"free", 0>>

exists(fs, f) == f \in DOMAIN fs

\* open("w") then write: the file is created or truncated
open_w(fs, f, content) ==
    [n \in DOMAIN fs \cup {f} |-> IF n = f THEN content ELSE fs[n]]

\* open("a") then write: the file is created or extended
open_a(fs, f, content) ==
    [n \in DOMAIN fs \cup {f} |->
        IF n = f THEN (IF f \in DOMAIN fs THEN fs[f] ELSE <<>>) \o content
        ELSE fs[n]]

unlink(fs, f) == [n \in DOMAIN fs \ {f} |-> fs[n]]

\* a write makes the file the most recently modified one
touch(ord, f) == <<f>> \o SelectSeq(ord, LAMBDA n : n # f)

remove(ord, f) == SelectSeq(ord, LAMBDA n : n # f)

alive_in(pt, kind, i) == \E p \in Pids : pt[p] = <<kind, i>>

alive(kind, i) == alive_in(ptable, kind, i)

FreePids == {p \in Pids : ptable[p] = Free}

\* The content of a .pid file, or of the launching shell's stdout: `pre` says
\* that text precedes the process id, `pid` is the id that echo $! printed (0
\* when none was).  int(content) succeeds only on [pre |-> FALSE, pid # 0].
NoText == [pre |-> FALSE, pid |-> 0]

----------------------------------------------------------------------------
(* execute_with_timeout: the blocks it writes to its log.                  *)

\* the header written with open("a") in place of open("w")
write_header_append(fs, output_file, i) == open_a(fs, output_file, << <<"header", i>> >>)

\* with output_file.open("w") as f: the six header lines
write_header(fs, output_file, i) == open_w(fs, output_file, << <<"header", i>> >>)

\* with output_file.open("a") as f: output, rule, Exit Code, Completed
write_footer(fs, output_file, i) ==
    open_a(fs, output_file, << <<"output", i>>, <<"exit", i>> >>)

\* with output_file.open("a") as f: TIMEOUT, Timeout, Terminated
write_timeout(fs, output_file, i) == open_a(fs, output_file, << <<"timeout", i>> >>)

\* the timeout branch without process.kill() and process.wait()
no_kill(pt, i) == pt

\* a kill that reaches every process the server has started
kill_all(pt, i) == [p \in Pids |-> Free]

\* process.kill(); await process.wait()
kill_and_wait(pt, i) == [p \in Pids |-> IF pt[p] = <<"cmd", i>> THEN Free ELSE pt[p]]

\* > {output_file} 2>&1 in the launching shell: the log is created or truncated
redirect(fs, output_file) == open_w(fs, output_file, <<>>)

\* with pid_file.open("w") as f: f.write(pid)
write_pid(ms, pid_file, pid) == open_w(ms, pid_file, pid)

----------------------------------------------------------------------------
(* The state after construction.                                           *)

\* args.get("lines", 50)
default_lines == 50

IdleReader ==
    [pc |-> "idle", op |-> "none", show_output |-> FALSE, lines |-> default_lines,
     listed |-> {}, todo |-> <<>>, report |-> <<>>]

Init ==
    /\ now = 0
    /\ calls = <<>>
    /\ files = <<>>
    /\ markers = <<>>
    /\ order = <<>>
    /\ ptable = [p \in Pids |-> Free]
    /\ rd = IdleReader

\* The record of a call; the fields a mode does not use keep these values.
NewCall(req, cmd_type) ==
    [args |-> req, cmd_type |-> cmd_type, mode |-> "none", timeout |-> 0,
     ts |-> now, log |-> <<>>, pc |-> "none", sh |-> "none", out |-> NoText,
     exited |-> FALSE, timer |-> 0, wrote |-> 0, res |-> "none"]

\* The server is one asyncio event loop: a coroutine runs from one await to
\* the next without another coroutine of the server running in between.
\* check_status and get_context hold no await.
LoopFree == rd.pc = "idle"

\* A reader call that has returned or raised hands its result to the caller
\* (ReaderDone) before anything else happens.
Handing == rd.pc \in {"returned", "raised"}

----------------------------------------------------------------------------
(* execute: execute_safe_command, then the first block of the executor it  *)
(* routes to, up to that executor's first await.                           *)

\* execute_with_timeout, lines 163-182
start_bounded(i, c, timeout) ==
    LET output_file == safe_log(now) IN
    /\ files' = write_header(files, output_file, i)
    /\ order' = touch(order, output_file)
    /\ \/ /\ c.args.cwd = "ok"
          /\ \E p \in FreePids : ptable' = [ptable EXCEPT ![p] = <<"cmd", i>>]
          /\ calls' = Append(calls, [c EXCEPT !.mode = "bounded", !.log = output_file,
                                        !.timeout = timeout, !.timer = timeout,
                                        !.pc = "waiting"])
       \/ /\ c.args.cwd # "ok"
          /\ ptable' = ptable
          /\ calls' = Append(calls, [c EXCEPT !.mode = "bounded", !.log = output_file,
                                        !.timeout = timeout,
                                        !.pc = "failed", !.res = "error"])
    /\ UNCHANGED <<now, markers, rd>>

\* execute_background, lines 234-247
start_background(i, c) ==
    LET output_file == bg_log(now, c.args.command) IN
    /\ \/ /\ c.args.cwd = "ok"
          /\ calls' = Append(calls, [c EXCEPT !.mode = "background", !.log = output_file,
                                        !.pc = "launching",
                                        !.sh = IF has_foreground_part(c.args.command)
                                               THEN "foreground" ELSE "ready"])
       \/ /\ c.args.cwd # "ok"
          /\ calls' = Append(calls, [c EXCEPT !.mode = "background", !.log = output_file,
                                        !.pc = "failed", !.res = "error"])
    /\ UNCHANGED <<now, files, markers, order, ptable, rd>>

Execute(req) ==
    /\ Len(calls) < MaxCalls
    /\ now < MaxTime
    /\ LoopFree
    /\ LET i == Len(calls) + 1
           force_background == Get(req.force_background, FALSE)
           custom_timeout == req.timeout
           cmd_type == classify_command(req.command)
           c == NewCall(req, cmd_type)
       IN  IF to_background(force_background, cmd_type)
           THEN start_background(i, c)
           ELSE start_bounded(i, c, effective_timeout(custom_timeout))

----------------------------------------------------------------------------
(* The bounded executor after its first await.                             *)

Calls == 1..Len(calls)

\* The command's process exits by itself (the operating system's step).
ProcExit(i) ==
    /\ ~Handing
    /\ calls[i].mode = "bounded"
    /\ \E p \in Pids :
          /\ ptable[p] = <<"cmd", i>>
          /\ ptable' = [ptable EXCEPT ![p] = Free]
    /\ calls' = [calls EXCEPT ![i].exited = TRUE]
    /\ UNCHANGED <<now, files, markers, order, rd>>

\* communicate() returned inside the deadline: lines 190-207
Complete(i) ==
    /\ LoopFree
    /\ calls[i].pc = "waiting"
    /\ calls[i].exited
    /\ files' = write_footer(files, calls[i].log, i)
    /\ order' = touch(order, calls[i].log)
    /\ calls' = [calls EXCEPT ![i].pc = "completed", ![i].res = "ok", ![i].timer = 0]
    /\ UNCHANGED <<now, markers, ptable, rd>>

\* asyncio.TimeoutError: lines 209-211, up to await process.wait()
TimeoutFire(i) ==
    /\ LoopFree
    /\ calls[i].pc = "waiting"
    /\ calls[i].timer = 0
    /\ calls' = [calls EXCEPT ![i].pc = "killing"]
    /\ UNCHANGED <<now, files, markers, order, ptable, rd>>

\* process.wait() returned: lines 211-224
TimeoutReturn(i) ==
    /\ LoopFree
    /\ calls[i].pc = "killing"
    /\ ptable' = kill_and_wait(ptable, i)
    /\ files' = write_timeout(files, calls[i].log, i)
    /\ order' = touch(order, calls[i].log)
    /\ calls' = [calls EXCEPT ![i].pc = "timedout", ![i].res = "timeout"]
    /\ UNCHANGED <<now, markers, rd>>

----------------------------------------------------------------------------
(* The background launcher after its first await, and the shell it starts. *)

\* The foreground part of the shell line ends (the submitted command's own
\* doing); what it printed went to the pipe, before the process id.
ForegroundExit(i, printed) ==
    /\ ~Handing
    /\ calls[i].pc = "launching"
    /\ calls[i].sh = "foreground"
    /\ calls' = [calls EXCEPT ![i].sh = "ready",
                              ![i].out = [pre |-> printed, pid |-> 0]]
    /\ UNCHANGED <<now, files, markers, order, ptable, rd>>

\* The shell runs `... > {output_file} 2>&1 & echo $!` and exits.
ShellLaunch(i) ==
    /\ ~Handing
    /\ calls[i].pc = "launching"
    /\ calls[i].sh = "ready"
    /\ \E p \in FreePids :
          /\ ptable' = [ptable EXCEPT ![p] = <<"job", i>>]
          /\ calls' = [calls EXCEPT ![i].sh = "done", ![i].out.pid = p]
    /\ files' = redirect(files, calls[i].log)
    /\ order' = touch(order, calls[i].log)
    /\ UNCHANGED <<now, markers, rd>>

\* communicate() returned: lines 249-257, up to await asyncio.sleep(1)
WritePid(i) ==
    /\ LoopFree
    /\ calls[i].pc = "launching"
    /\ calls[i].sh = "done"
    /\ markers' = write_pid(markers, calls[i].log, calls[i].out)
    /\ calls' = [calls EXCEPT ![i].pc = "grace", ![i].timer = 1]
    /\ UNCHANGED <<now, files, order, ptable, rd>>

\* asyncio.sleep(1) returned: lines 259-271
GraceReturn(i) ==
    /\ LoopFree
    /\ calls[i].pc = "grace"
    /\ calls[i].timer = 0
    /\ calls' = [calls EXCEPT ![i].pc = "started", ![i].res = "started"]
    /\ UNCHANGED <<now, files, markers, order, ptable, rd>>

\* The background job writes a block of output to its log.
JobWrite(i) ==
    /\ ~Handing
    /\ alive("job", i)
    /\ calls[i].wrote < MaxOut
    /\ exists(files, calls[i].log)
    /\ files' = open_a(files, calls[i].log, << <<"output", i>> >>)
    /\ order' = touch(order, calls[i].log)
    /\ calls' = [calls EXCEPT ![i].wrote = @ + 1]
    /\ UNCHANGED <<now, markers, ptable, rd>>

\* The background job exits.
JobExit(i) ==
    /\ ~Handing
    /\ \E p \in Pids :
          /\ ptable[p] = <<"job", i>>
          /\ ptable' = [ptable EXCEPT ![p] = Free]
    /\ UNCHANGED <<now, calls, files, markers, order, rd>>

\* The operating system gives the process id of an exited job, still recorded
\* in a .pid file, to another process: one of the same user ("other") or of
\* another user ("foreign": os.kill then fails with EPERM).
PidReuse(p, who) ==
    /\ ~Handing
    /\ ptable[p] = Free
    /\ \E f \in DOMAIN markers : markers[f].pid = p
    /\ ptable' = [ptable EXCEPT ![p] = <<who, 0>>]
    /\ UNCHANGED <<now, calls, files, markers, order, rd>>

\* A second passes.  Past MaxTime the clock is no longer read (no call is
\* submitted), and only the running timers go on.
Tick ==
    /\ ~Handing
    /\ \/ now < MaxTime
       \/ \E i \in Calls : calls[i].timer > 0 /\ calls[i].pc \in {"waiting", "grace"}
    /\ now' = IF now < MaxTime THEN now + 1 ELSE now
    /\ calls' = [i \in Calls |->
                    IF calls[i].timer > 0 /\ calls[i].pc \in {"waiting", "grace"}
                    THEN [calls[i] EXCEPT !.timer = @ - 1]
                    ELSE calls[i]]
    /\ UNCHANGED <<files, markers, order, ptable, rd>>

----------------------------------------------------------------------------
(* check_status.  It holds no await, so no coroutine of the server runs    *)
(* during it; the processes and whoever else uses the directory do.  One   *)
(* action per group of system calls that nothing observable separates.     *)

\* the list without the cap of [:n]
first_uncapped(seq, n) == seq

\* seq[:n]
first(seq, n) == SubSeq(seq, 1, IF Len(seq) < n THEN Len(seq) ELSE n)

\* sorted(paths, key=os.path.getmtime, reverse=True)
sorted_by_mtime(listed) == SelectSeq(order, LAMBDA f : f \in listed)

\* os.kill(int(pid), 0), as check_status reads its outcome:
\* "ok" no exception, "esrch" ProcessLookupError, "eperm" PermissionError
\* (both OSError), "value" the ValueError of int(pid)
probe(pid) ==
    IF pid.pre \/ pid.pid = 0 THEN "value"
    ELSE IF ptable[pid.pid] = Free THEN "esrch"
    ELSE IF ptable[pid.pid] = <<"foreign", 0>> THEN "eperm"
    ELSE "ok"

\* try: os.kill(int(pid), 0); status = Running
\* except (OSError, ValueError): status = Completed
status_of(outcome) == IF outcome = "ok" THEN "running" ELSE "completed"

\* self.output_dir.glob("bg_*.log")
CheckStart(show_output) ==
    /\ LoopFree
    /\ rd' = [IdleReader EXCEPT !.pc = "sort", !.op = "check",
                                !.show_output = show_output,
                                !.listed = {f \in DOMAIN files : f[1] = "bg"}]
    /\ UNCHANGED <<now, calls, files, markers, order, ptable>>

\* The rest of an item once its status is known: lines 308-318.
check_item_done(entry) ==
    IF rd.show_output /\ exists(files, Head(rd.todo))
    THEN rd' = [rd EXCEPT !.pc = "log_read", !.report = Append(@, entry)]
    ELSE rd' = [rd EXCEPT !.pc = IF Len(rd.todo) = 1 THEN "returned" ELSE "item",
                          !.todo = Tail(@), !.report = Append(@, entry)]

\* sorted(..., key=os.path.getmtime, reverse=True); if not bg_files; bg_files[:5]
CheckSort ==
    /\ rd.pc = "sort"
    /\ rd.op = "check"
    /\ rd' = IF \E f \in rd.listed : ~exists(files, f)
             THEN [rd EXCEPT !.pc = "raised"]
             ELSE IF rd.listed = {}
             THEN [rd EXCEPT !.pc = "returned"]
             ELSE [rd EXCEPT !.pc = "item", !.listed = {},
                             !.todo = first(sorted_by_mtime(rd.listed), 5)]
    /\ UNCHANGED <<now, calls, files, markers, order, ptable>>

\* if pid_file.exists(): ... else: status = Unknown
CheckItem ==
    /\ rd.pc = "item"
    /\ rd.op = "check"
    /\ IF exists(markers, Head(rd.todo))
       THEN rd' = [rd EXCEPT !.pc = "pid_read"]
       ELSE check_item_done([log |-> Head(rd.todo), status |-> "unknown",
                             seen |-> "missing"])
    /\ UNCHANGED <<now, calls, files, markers, order, ptable>>

\* with pid_file.open("r") as f: pid = f.read().strip(); then the probe
CheckPid ==
    /\ rd.pc = "pid_read"
    /\ IF ~exists(markers, Head(rd.todo))
       THEN rd' = [rd EXCEPT !.pc = "raised"]
       ELSE LET pid == markers[Head(rd.todo)]
                outcome == probe(pid)
            IN  check_item_done([log |-> Head(rd.todo), status |-> status_of(outcome),
                                 seen |-> outcome])
    /\ UNCHANGED <<now, calls, files, markers, order, ptable>>

\* a check_status that removes the log it has shown
CheckLogRemoving ==
    /\ rd.pc = "log_read"
    /\ rd.op = "check"
    /\ exists(files, Head(rd.todo))
    /\ rd' = [rd EXCEPT !.pc = IF Len(rd.todo) = 1 THEN "returned" ELSE "item",
                        !.todo = Tail(@)]
    /\ files' = unlink(files, Head(rd.todo))
    /\ order' = remove(order, Head(rd.todo))
    /\ UNCHANGED <<now, calls, markers, ptable>>

\* with log_file.open("r") as f: recent_output = f.read()[-1000:]
CheckLog ==
    /\ rd.pc = "log_read"
    /\ rd.op = "check"
    /\ rd' = IF ~exists(files, Head(rd.todo))
             THEN [rd EXCEPT !.pc = "raised"]
             ELSE [rd EXCEPT !.pc = IF Len(rd.todo) = 1 THEN "returned" ELSE "item",
                             !.todo = Tail(@)]
    /\ UNCHANGED <<now, calls, files, markers, order, ptable>>

----------------------------------------------------------------------------
(* get_context.                                                            *)

\* The text of a log.  A character of it is a pair: the line break NL, or the
\* text of one line of the block that call i wrote.
NL == <<"\n", 0>>

\* what the writes of a block put into the file
render(entry) ==
    LET i == entry[2] IN
    CASE entry[1] = "header" ->
             \* lines 169-174: six lines, each ended by a line break
             << <<"banner", i>>, NL, <<"command", i>>, NL, <<"cwd", i>>, NL,
                <<"timeout", i>>, NL, <<"started", i>>, NL, <<"rule", i>>, NL >>
      [] entry[1] = "output" ->
             \* the command's output, one unfinished line
             << <<"output", i>> >>
      [] entry[1] = "exit" ->
             \* lines 195-197: "\n====\n", Exit Code, Completed
             << NL, <<"rule", i>>, NL, <<"exit", i>>, NL, <<"completed", i>>, NL >>
      [] entry[1] = "timeout" ->
             \* lines 214-216: "\nTIMEOUT...\n", Timeout, Terminated
             << NL, <<"timeout_mark", i>>, NL, <<"timeout", i>>, NL,
                <<"terminated", i>>, NL >>

\* f.read()
text_of(log) == Flatten([k \in 1..Len(log) |-> render(log[k])])

\* str.splitlines(): a line break ends a line; a text that ends with a line
\* break has no empty last line
RECURSIVE SplitLines(_, _, _, _)
SplitLines(s, k, cur, acc) ==
    IF k > Len(s) THEN (IF cur = <<>> THEN acc ELSE Append(acc, cur))
    ELSE IF s[k] = NL THEN SplitLines(s, k + 1, <<>>, Append(acc, cur))
    ELSE SplitLines(s, k + 1, Append(cur, s[k]), acc)

splitlines(s) == SplitLines(s, 1, <<>>, <<>>)

\* "\n".join(ls)
RECURSIVE join(_)
join(ls) ==
    IF ls = <<>> THEN <<>>
    ELSE IF Len(ls) = 1 THEN ls[1]
    ELSE ls[1] \o <<NL>> \o join(Tail(ls))

\* seq[start:] of Python: a negative start counts from the end, and both ends
\* are clipped to the sequence
slice_from(seq, start) ==
    LET n == Len(seq)
        from == IF start < 0 THEN (IF n + start < 0 THEN 0 ELSE n + start)
                ELSE (IF start > n THEN n ELSE start)
    IN  SubSeq(seq, from + 1, n)

\* content_lines[-lines:]
last_lines(content_lines, lines) == slice_from(content_lines, 0 - lines)

\* lines 344-349: what get_context emits of a log's content
emit(content, lines) ==
    LET content_lines == splitlines(content) IN
    IF Len(content_lines) > lines
    THEN [note |-> TRUE, body |-> join(last_lines(content_lines, lines))]
    ELSE [note |-> FALSE, body |-> content]

\* list(self.output_dir.glob("*.log"))
ContextStart(lines) ==
    /\ LoopFree
    /\ rd' = [IdleReader EXCEPT !.pc = "sort", !.op = "context",
                                !.lines = Get(lines, default_lines),
                                !.listed = DOMAIN files]
    /\ UNCHANGED <<now, calls, files, markers, order, ptable>>

\* sorted(..., key=os.path.getmtime, reverse=True); all_files[:3]
ContextSort ==
    /\ rd.pc = "sort"
    /\ rd.op = "context"
    /\ rd' = IF \E f \in rd.listed : ~exists(files, f)
             THEN [rd EXCEPT !.pc = "raised"]
             ELSE IF rd.listed = {}
             THEN [rd EXCEPT !.pc = "returned"]
             ELSE [rd EXCEPT !.pc = "item", !.listed = {},
                             !.todo = first(sorted_by_mtime(rd.listed), 3)]
    /\ UNCHANGED <<now, calls, files, markers, order, ptable>>

\* if log_file.exists():
ContextItem ==
    /\ rd.pc = "item"
    /\ rd.op = "context"
    /\ rd' = IF exists(files, Head(rd.todo))
             THEN [rd EXCEPT !.pc = "log_read"]
             ELSE [rd EXCEPT !.pc = IF Len(rd.todo) = 1 THEN "returned" ELSE "item",
                             !.todo = Tail(@)]
    /\ UNCHANGED <<now, calls, files, markers, order, ptable>>

\* with log_file.open("r") as f: content = f.read(); the item's text
ContextLog ==
    /\ rd.pc = "log_read"
    /\ rd.op = "context"
    /\ rd' = IF ~exists(files, Head(rd.todo))
             THEN [rd EXCEPT !.pc = "raised"]
             ELSE [rd EXCEPT !.pc = IF Len(rd.todo) = 1 THEN "returned" ELSE "item",
                             !.todo = Tail(@),
                             !.report = Append(@, [log |-> Head(rd.todo),
                                                   status |-> "shown",
                                                   seen |-> "shown",
                                                   text |-> emit(text_of(files[Head(rd.todo)]),
                                                                 rd.lines)])]
    /\ UNCHANGED <<now, calls, files, markers, order, ptable>>

\* return [TextContent(type="text", text=...)], or the exception leaves the
\* operation: the call is over
ReaderDone ==
    /\ Handing
    /\ rd' = IdleReader
    /\ UNCHANGED <<now, calls, files, markers, order, ptable>>

----------------------------------------------------------------------------
(* Whoever else uses the output directory (the operator).                  *)

OperatorDeleteLog(f) ==
    /\ ~Handing
    /\ exists(files, f)
    /\ files' = unlink(files, f)
    /\ order' = remove(order, f)
    /\ UNCHANGED <<now, calls, markers, ptable, rd>>

OperatorDeleteMarker(f) ==
    /\ ~Handing
    /\ exists(markers, f)
    /\ markers' = unlink(markers, f)
    /\ UNCHANGED <<now, calls, files, order, ptable, rd>>

----------------------------------------------------------------------------
(* The callers' inputs.                                                    *)

Request(command, cwd, force_background, timeout) ==
    [command |-> command, cwd |-> cwd, force_background |-> force_background,
     timeout |-> timeout]

cmd_ls == <<"l","s">>
cmd_pytest == <<"p","y","t","e","s","t">>
\* a ; list: its first part runs in the foreground of the launching shell
cmd_list == <<"a",";","b">>

\* The requests of the interleaving model: a quick command under a deadline
\* of one second and under the default one, a command whose working
\* directory is missing, a command the classifier sends to the background,
\* a ; list forced to the background.
Requests ==
    { Request(cmd_ls, "ok", <<>>, <<1>>),
      Request(cmd_ls, "missing", <<>>, <<1>>),
      Request(cmd_pytest, "ok", <<>>, <<1>>),
      Request(cmd_pytest, "missing", <<>>, <<>>),
      Request(cmd_list, "ok", <<TRUE>>, <<>>) }

\* The commands of the classifier's input set: every concatenation of at most
\* MaxPieces of these pieces.
Pieces ==
    { <<"T","e">>, <<"s","T">>, <<"m","a","k","e">>, <<"P","U","L","L">>,
      <<" ">>, <<"a"," ","b","\t","c"," ">>, <<"x"," ">> }

PieceSeqs == UNION {[1..n -> Pieces] : n \in 0..MaxPieces}

Commands == {Flatten(ps) : ps \in PieceSeqs}

\* The requests that the bounded executor serves: a deadline of one second, a
\* missing working directory, and a timeout of 0 (the default deadline).
BoundedRequests ==
    { Request(cmd_ls, "ok", <<>>, <<1>>),
      Request(cmd_ls, "missing", <<>>, <<1>>),
      Request(cmd_ls, "ok", <<>>, <<0>>) }

\* the lines arguments of get_context: absent, none, one, the length of a
\* header
LineCounts == {<<>>, <<0>>, <<1>>, <<6>>}

RouteRequests ==
    { Request(c, d, f, t) :
        c \in Commands, d \in {"ok"},
        f \in {<<>>, <<TRUE>>, <<FALSE>>}, t \in {<<>>, <<0>>, <<1>>} }

----------------------------------------------------------------------------
(* The specifications.                                                     *)

\* execute calls of both modes, their processes and the clock
Next ==
    \/ \E req \in Requests : Execute(req)
    \/ \E i \in Calls : ProcExit(i)
    \/ \E i \in Calls : Complete(i)
    \/ \E i \in Calls : TimeoutFire(i)
    \/ \E i \in Calls : TimeoutReturn(i)
    \/ \E i \in Calls, printed \in BOOLEAN : ForegroundExit(i, printed)
    \/ \E i \in Calls : ShellLaunch(i)
    \/ \E i \in Calls : WritePid(i)
    \/ \E i \in Calls : GraceReturn(i)
    \/ \E i \in Calls : JobWrite(i)
    \/ \E i \in Calls : JobExit(i)
    \/ Tick

Spec == Init /\ [][Next]_vars

\* The steps that the code, the launching shell and the clock take by
\* themselves.  The submitted command's own processes (ProcExit,
\* ForegroundExit, JobWrite, JobExit) are not among them: a command may run
\* for ever.
Progress ==
    \/ Tick
    \/ \E i \in Calls :
          \/ Complete(i)
          \/ TimeoutFire(i)
          \/ TimeoutReturn(i)
          \/ ShellLaunch(i)
          \/ WritePid(i)
          \/ GraceReturn(i)

FairSpec == Spec /\ WF_vars(Progress)

\* execute calls that the bounded executor serves
BoundedNext ==
    \/ \E req \in BoundedRequests : Execute(req)
    \/ \E i \in Calls : ProcExit(i)
    \/ \E i \in Calls : Complete(i)
    \/ \E i \in Calls : TimeoutFire(i)
    \/ \E i \in Calls : TimeoutReturn(i)
    \/ Tick

BoundedSpec == Init /\ [][BoundedNext]_vars

\* execute calls with check_status and get_context calls, and the other
\* processes of the machine
ReadNext ==
    \/ Len(calls) < MaxReadCalls /\ \E req \in Requests : Execute(req)
    \/ \E i \in Calls : ProcExit(i)
    \/ \E i \in Calls : Complete(i)
    \/ \E i \in Calls : TimeoutFire(i)
    \/ \E i \in Calls : TimeoutReturn(i)
    \/ \E i \in Calls, printed \in BOOLEAN : ForegroundExit(i, printed)
    \/ \E i \in Calls : ShellLaunch(i)
    \/ \E i \in Calls : WritePid(i)
    \/ \E i \in Calls : GraceReturn(i)
    \/ \E i \in Calls : JobWrite(i)
    \/ \E i \in Calls : JobExit(i)
    \/ Tick
    \/ \E p \in Pids, who \in {"other", "foreign"} : PidReuse(p, who)
    \/ \E show_output \in BOOLEAN : CheckStart(show_output)
    \/ CheckSort
    \/ CheckItem
    \/ CheckPid
    \/ CheckLog
    \/ \E lines \in LineCounts : ContextStart(lines)
    \/ ContextSort
    \/ ContextItem
    \/ ContextLog
    \/ ReaderDone

ReadSpec == Init /\ [][ReadNext]_vars

\* the same with the operator deleting files of the output directory
OperatorNext ==
    \/ ReadNext
    \/ \E f \in DOMAIN files : OperatorDeleteLog(f)
    \/ \E f \in DOMAIN markers : OperatorDeleteMarker(f)

OperatorSpec == Init /\ [][OperatorNext]_vars

\* one execute call on each input of RouteRequests
RouteNext == Len(calls) = 0 /\ \E req \in RouteRequests : Execute(req)

RouteSpec == Init /\ [][RouteNext]_vars

----------------------------------------------------------------------------
(* The claims about the classifier and the routing (RouteSpec).            *)

\* two characters that differ at most in case
SameLetter(a, b) ==
    \/ a = b
    \/ \E k \in 1..26 : \/ a = UpperChars[k] /\ b = LowerChars[k]
                        \/ a = LowerChars[k] /\ b = UpperChars[k]

\* some keyword of kws occurs in text at some offset, case ignored
HasKeyword(kws, text) ==
    \E n \in 1..Len(kws) : \E off \in 0..Len(text) :
        /\ off + Len(kws[n]) <= Len(text)
        /\ \A j \in 1..Len(kws[n]) : SameLetter(text[off + j], kws[n][j])

\* the number of places where a whitespace-delimited token begins
TokenCount(text) ==
    Cardinality({k \in 1..Len(text) :
                    /\ text[k] \notin Whitespace
                    /\ k = 1 \/ text[k - 1] \in Whitespace})

\* C5: classify is total and first match wins in the order test, build, long,
\* complex, quick: a command holding a test keyword (case ignored, anywhere
\* in the line) is test; else one holding a build keyword is build; else one
\* holding a long keyword is long; else one of more than 5 whitespace-
\* delimited tokens is complex; else it is quick.
C5_ClassifyFirstMatch ==
    \A i \in Calls :
        LET command == calls[i].args.command
            t == calls[i].cmd_type
        IN  /\ t \in Categories
            /\ IF HasKeyword(test_patterns, command) THEN t = "test"
               ELSE IF HasKeyword(build_patterns, command) THEN t = "build"
               ELSE IF HasKeyword(long_patterns, command) THEN t = "long"
               ELSE IF TokenCount(command) > 5 THEN t = "complex"
               ELSE t = "quick"

\* C5's case: a command that holds a test keyword in mixed case after a build
\* keyword has been classified test.
C5_Witness ==
    \E i \in Calls :
        /\ calls[i].args.command = <<"m","a","k","e","T","e","s","T">>
        /\ calls[i].cmd_type = "test"

BackgroundCategories == {"test", "build", "long"}

\* C4 as stated: test, build and long go to the background launcher, complex
\* and quick to the bounded executor, and the caller can force either path
\* for any command: force_background = true gives the background launcher
\* and force_background = false the bounded executor, whatever the category.
C4_ForceEitherPath ==
    \A i \in Calls :
        LET force == calls[i].args.force_background
            t == calls[i].cmd_type
        IN  /\ force = <<TRUE>> => calls[i].mode = "background"
            /\ force = <<FALSE>> => calls[i].mode = "bounded"
            /\ force = <<>> /\ t \in BackgroundCategories => calls[i].mode = "background"
            /\ force = <<>> /\ t \notin BackgroundCategories => calls[i].mode = "bounded"

\* C4 as amended: a call goes to the background launcher exactly when the
\* caller passes force_background = true or the command is classified test,
\* build or long, and to the bounded executor otherwise; only the background
\* path can be forced (force_background = false leaves test, build and long
\* commands in the background).
C4_Routing ==
    \A i \in Calls :
        LET force == calls[i].args.force_background
            t == calls[i].cmd_type
        IN  /\ calls[i].mode \in {"background", "bounded"}
            /\ calls[i].mode = "background" <=>
                  (force = <<TRUE>> \/ t \in BackgroundCategories)

\* C4's case: a quick command forced to the background, and a long command
\* that stays in the background under force_background = false.
C4_Witness ==
    /\ \E i \in Calls :
          /\ calls[i].args.force_background = <<FALSE>>
          /\ calls[i].cmd_type = "long"
          /\ calls[i].mode = "background"

----------------------------------------------------------------------------
(* The claims about the bounded executor (BoundedSpec, Spec, FairSpec).    *)

Returned == {"completed", "timedout", "failed", "started"}

IsPrefix(s, t) == Len(s) <= Len(t) /\ SubSeq(t, 1, Len(s)) = s

\* the terminal entries of a log: exit-code footers and timeout markers
Outcomes(log) == {k \in 1..Len(log) : log[k][1] \in {"exit", "timeout"}}

\* C1: every execute call eventually returns a result, whatever the command
\* does: a bounded call at the latest when its deadline has elapsed and the
\* kill has been observed, a background call after the launch and the grace
\* period, without waiting for the submitted command.
C1_ExecuteReturns ==
    \A i \in 1..MaxCalls :
        [](i \in Calls => <>(i \in Calls /\ calls[i].pc \in Returned))

\* C2: when the deadline of a bounded call elapses before communicate()
\* returns, the call returns the timeout result only after the kill: at that
\* moment the process it launched no longer exists, the deadline has elapsed,
\* and the last block of its log is its timeout marker.
C2_TimeoutKills ==
    [][\A i \in Calls :
          calls[i].pc = "killing" /\ calls'[i].pc = "timedout" =>
              /\ calls[i].timer = 0
              /\ ~alive_in(ptable', "cmd", i)
              /\ calls'[i].res = "timeout"
              /\ exists(files', calls[i].log)
              /\ files'[calls[i].log][Len(files'[calls[i].log])] = <<"timeout", i>>]_vars

\* C2's case: a call has returned the timeout result for a process that had
\* not exited by itself.
C2_Witness ==
    \E i \in Calls :
        /\ calls[i].pc = "timedout"
        /\ ~calls[i].exited
        /\ calls[i].timeout = 1

\* C3: the log of a bounded call that has finished holds exactly one terminal
\* entry, an exit-code footer or a timeout marker.
C3_OneOutcome ==
    \A i \in Calls :
        calls[i].pc \in {"completed", "timedout"} =>
            /\ exists(files, calls[i].log)
            /\ Cardinality(Outcomes(files[calls[i].log])) = 1

\* C6: a log, once created, only grows: no step removes it or changes what it
\* already holds.
C6_AppendOnly ==
    [][\A f \in DOMAIN files :
          /\ f \in DOMAIN files'
          /\ IsPrefix(files[f], files'[f])]_vars

----------------------------------------------------------------------------
(* The claims about the readers (ReadSpec, OperatorSpec).                  *)

\* the status that the specification gives to what check_status saw of an
\* item: "missing" no marker file, "ok" the probe found the process, "esrch"
\* no such process, "eperm" the probe failed for another reason, "value" the
\* marker holds no process id
ClaimedStatus(seen) ==
    IF seen = "ok" THEN "running"
    ELSE IF seen = "esrch" THEN "completed"
    ELSE "unknown"

\* C7: check_status reports an item as running when its marker exists and the
\* probe finds the process, as completed only when the probe fails because no
\* such process exists, and as unknown when there is no marker or when the
\* marker or the process cannot be resolved (a marker that is no number, a
\* probe that fails for another reason).
C7_StatusRule ==
    rd.op = "check" =>
        \A k \in 1..Len(rd.report) :
            rd.report[k].status = ClaimedStatus(rd.report[k].seen)

\* check_status has just reported the status of call i's log
Reports(i) ==
    /\ rd.op = "check"
    /\ Len(rd'.report) = Len(rd.report) + 1
    /\ rd'.report[Len(rd'.report)].log = calls[i].log

\* C8: for a background call that execute has returned from, a check_status
\* made while the launched job is alive reports it as running, and one made
\* after the job has exited reports it as completed.
C8_LivenessReport ==
    [][\A i \in Calls :
          calls[i].pc = "started" /\ Reports(i) =>
              rd'.report[Len(rd'.report)].status =
                  IF alive("job", i) THEN "running" ELSE "completed"]_vars

\* C10: check_status and get_context never fail on a file that is deleted
\* during the call: no reader call ends by raising.
C10_ReadersNeverRaise == rd.pc # "raised"

----------------------------------------------------------------------------
(* The operation boundary (BoundarySpec).                                  *)

\* execute_safe_command on arguments without "command": args["command"]
\* (line 146) raises KeyError before anything is classified or written, and
\* neither execute_safe_command nor handle_call_tool catches it.  The call's
\* record keeps an empty command text.
ExecuteNoCommand(cwd, force_background, timeout) ==
    /\ Len(calls) < MaxReadCalls
    /\ now < MaxTime
    /\ LoopFree
    /\ calls' = Append(calls,
                   [NewCall(Request(<<>>, cwd, force_background, timeout), "none")
                       EXCEPT !.pc = "raised", !.res = "raised"])
    /\ UNCHANGED <<now, files, markers, order, ptable, rd>>

\* the three operations on every kind of arguments, with the operator
BoundaryNext ==
    \/ OperatorNext
    \/ \E cwd \in {"ok", "missing"}, f \in {<<>>, <<TRUE>>}, t \in {<<>>, <<1>>} :
          ExecuteNoCommand(cwd, f, t)

BoundarySpec == Init /\ [][BoundaryNext]_vars

\* C11: no operation raises past its boundary: every execute call and every
\* check_status or get_context call ends with a textual result, whatever
\* fails in it (the start of the process, the deadline, the probe, a read of
\* a log or marker, an argument that is missing).
C11_NoOperationRaises ==
    /\ rd.pc # "raised"
    /\ \A i \in Calls : calls[i].pc # "raised"

----------------------------------------------------------------------------
(* The claims about what the readers report.                               *)

\* get_context has just emitted the log at the head of its list
Emits ==
    /\ rd.op = "context"
    /\ rd.pc = "log_read"
    /\ Len(rd'.report) = Len(rd.report) + 1

\* C12: for each log that get_context reports, with n the lines argument
\* (n >= 0): when the log has more than n lines the item carries the
\* truncation note and exactly the last n lines of the log; otherwise it
\* carries no note and all the lines of the log.
C12_ContextTail ==
    [][Emits =>
          LET L == splitlines(text_of(files[Head(rd.todo)]))
              n == rd.lines
              e == rd'.report[Len(rd'.report)].text
          IN  IF Len(L) > n
              THEN e.note /\ splitlines(e.body) = SubSeq(L, Len(L) - n + 1, Len(L))
              ELSE ~e.note /\ splitlines(e.body) = L]_vars

----------------------------------------------------------------------------
(* Background calls with check_status calls (StatusSpec).                  *)

\* two commands for the background launcher, with different log names
StatusRequests ==
    { Request(cmd_pytest, "ok", <<>>, <<>>),
      Request(cmd_list, "ok", <<TRUE>>, <<>>) }

StatusNext ==
    \/ \E req \in StatusRequests : Execute(req)
    \/ \E i \in Calls, printed \in BOOLEAN : ForegroundExit(i, printed)
    \/ \E i \in Calls : ShellLaunch(i)
    \/ \E i \in Calls : WritePid(i)
    \/ \E i \in Calls : GraceReturn(i)
    \/ \E i \in Calls : JobWrite(i)
    \/ \E i \in Calls : JobExit(i)
    \/ Tick
    \/ CheckStart(TRUE)
    \/ CheckSort
    \/ CheckItem
    \/ CheckPid
    \/ CheckLog
    \/ ReaderDone

StatusSpec == Init /\ [][StatusNext]_vars

\* What a check_status call that runs in the current state reports: lines
\* 284-306 with nothing happening during the call (it holds no await).
StatusView ==
    LET bg_files == sorted_by_mtime({f \in DOMAIN files : f[1] = "bg"})
        shown == first(bg_files, 5)
    IN  [k \in 1..Len(shown) |->
            [log |-> shown[k],
             status |-> IF exists(markers, shown[k])
                        THEN status_of(probe(markers[shown[k]]))
                        ELSE "unknown"]]

\* every execute call so far has returned
NoneInFlight == \A i \in Calls : calls[i].pc \in Returned

\* C13: with no execute call in flight, a step that neither submits an
\* invocation nor changes the state of a process (a running background job
\* writing to its log is such a step) leaves what check_status reports as it
\* was: the same logs in the same order with the same status each.
C13_StableStatus ==
    [][(NoneInFlight /\ Len(calls') = Len(calls) /\ ptable' = ptable)
          => StatusView' = StatusView]_vars

----------------------------------------------------------------------------
(* A server started on an output directory that earlier runs have filled   *)
(* (ListSpec): the directory is in the system's temporary directory and    *)
(* __init__ keeps what it holds, mkdir(exist_ok=True).                     *)

\* the log that the k-th earlier invocation left: every fourth one ran in the
\* bounded executor, the others in the background
old_log(k) ==
    IF k % 4 = 0 THEN <<"safe", 0 - k, <<>> >>
    ELSE <<"bg", 0 - k, <<"o", "l", "d">> >>

RECURSIVE Reverse(_)
Reverse(seq) == IF seq = <<>> THEN <<>> ELSE Append(Reverse(Tail(seq)), Head(seq))

\* The modification times of the n logs left: they follow the order of
\* submission from some log on, or the opposite order.
OldOrders(n) ==
    LET base == [k \in 1..n |-> old_log(k)]
        rot(r) == SubSeq(base, r + 1, n) \o SubSeq(base, 1, r)
    IN  {rot(r) : r \in 0..(IF n = 0 THEN 0 ELSE n - 1)}
           \cup {Reverse(rot(r)) : r \in 0..(IF n = 0 THEN 0 ELSE n - 1)}

\* Every log left holds some output; every second background log still has
\* its marker, of a process that has exited.
ListInit ==
    /\ now = 0
    /\ calls = <<>>
    /\ \E n \in 0..MaxOld :
          /\ order \in OldOrders(n)
          /\ files = [f \in {old_log(k) : k \in 1..n} |-> << <<"output", 0>> >>]
          /\ markers = [f \in {old_log(k) : k \in {j \in 1..n : j % 2 = 1}} |->
                            [pre |-> FALSE, pid |-> 1]]
    /\ ptable = [p \in Pids |-> Free]
    /\ rd = IdleReader

\* one call of the bounded executor, and the readers
ListNext ==
    \/ Len(calls) < MaxReadCalls /\ \E req \in BoundedRequests : Execute(req)
    \/ \E i \in Calls : ProcExit(i)
    \/ \E i \in Calls : Complete(i)
    \/ \E i \in Calls : TimeoutFire(i)
    \/ \E i \in Calls : TimeoutReturn(i)
    \/ Tick
    \/ \E show_output \in BOOLEAN : CheckStart(show_output)
    \/ CheckSort
    \/ CheckItem
    \/ CheckPid
    \/ CheckLog
    \/ \E lines \in LineCounts : ContextStart(lines)
    \/ ContextSort
    \/ ContextItem
    \/ ContextLog
    \/ ReaderDone

ListSpec == ListInit /\ [][ListNext]_vars

\* the place of a log in the order of modification times, 1 the newest
Rank(f) == CHOOSE k \in 1..Len(order) : order[k] = f

\* r lists the n most recently modified logs of the set S, the newest first
IsNewest(r, S, n) ==
    /\ Len(r) = (IF Cardinality(S) < n THEN Cardinality(S) ELSE n)
    /\ \A k \in 1..Len(r) : r[k] \in S
    /\ \A j, k \in 1..Len(r) : j < k => Rank(r[j]) < Rank(r[k])
    /\ \A f \in S : (\A k \in 1..Len(r) : r[k] # f) =>
                        \A k \in 1..Len(r) : Rank(r[k]) < Rank(f)

ReportedLogs == [k \in 1..Len(rd.report) |-> rd.report[k].log]

BgLogs == {f \in DOMAIN files : f[1] = "bg"}

----------------------------------------------------------------------------
(* The claims about the files and processes of execute calls (Spec).       *)

\* a process has been started for call i: the shell of the bounded executor
\* (line 177) or the launching shell of the background launcher (line 241)
Started(i) == calls[i].pc \notin {"none", "failed", "raised"}

\* C15: in every state where a process of an invocation has been started,
\* bounded or background, the invocation's log file exists; and no log file
\* is the log of two invocations.
C15_LogBeforeProcess ==
    /\ \A i \in Calls : Started(i) => exists(files, calls[i].log)
    /\ \A i, j \in Calls : i # j => calls[i].log # calls[j].log

\* call i has created its log: the header of the bounded executor, or the
\* redirection of the shell that the background launcher started
Created(i) ==
    \/ calls[i].mode = "bounded"
    \/ calls[i].mode = "background" /\ calls[i].sh = "done"

\* C16: execute calls are independent, also when submitted within the same
\* second: the log that an invocation has created holds only blocks written
\* for that invocation, and the marker of a background invocation that has
\* written it holds what that invocation's own launch printed.
C16_Independent ==
    \A i \in Calls :
        /\ (Created(i) /\ exists(files, calls[i].log)) =>
               \A k \in 1..Len(files[calls[i].log]) : files[calls[i].log][k][2] = i
        /\ (calls[i].pc \in {"grace", "started"} /\ exists(markers, calls[i].log)) =>
               markers[calls[i].log] = calls[i].out

\* C17: a process of a background invocation ends only by itself: no step of
\* the server (execute, its timeout, check_status, get_context) takes a
\* launched job out of the process table.
C17_NoBackgroundKill ==
    [][\A i \in Calls :
          (alive("job", i) /\ ~alive_in(ptable', "job", i)) => JobExit(i)]_vars

\* a bounded call has been killed at its deadline while the job of a
\* background call is still running
C17_Witness ==
    \E i, j \in Calls :
        /\ calls[i].pc = "timedout"
        /\ calls[j].pc = "started"
        /\ alive("job", j)

\* C19: whenever a background execute has returned the launch result, the
\* invocation's marker file exists and holds exactly the process id text
\* that the result reports.
C19_MarkerHoldsReportedPid ==
    \A i \in Calls :
        calls[i].pc = "started" =>
            /\ exists(markers, calls[i].log)
            /\ markers[calls[i].log] = calls[i].out

----------------------------------------------------------------------------
(* The readers as queries, and the deadline of a bounded call.             *)

\* C18: check_status and get_context are pure queries: no step of a reader
\* call creates, changes or deletes a log or a marker, changes a
\* modification time, or starts or ends a process.
C18_ReadersPure ==
    [][rd' # rd =>
          /\ files' = files
          /\ markers' = markers
          /\ order' = order
          /\ ptable' = ptable]_vars

\* check_status has returned a report in which a probed process is running:
\* the probe has left it running
C18_Witness ==
    /\ rd.pc = "returned"
    /\ rd.op = "check"
    /\ \E k \in 1..Len(rd.report), i \in Calls :
          /\ rd.report[k].seen = "ok"
          /\ rd.report[k].log = calls[i].log
          /\ alive("job", i)

\* C20: the deadline of a bounded call is the timeout that the caller
\* supplied when it is supplied and not 0, and 8 seconds otherwise; a call
\* routed to the background has no deadline, whatever timeout was supplied.
C20_Deadline ==
    \A i \in Calls :
        LET t == calls[i].args.timeout IN
        /\ calls[i].mode = "bounded" =>
              /\ calls[i].timeout = (IF t = <<>> \/ t[1] = 0 THEN 8 ELSE t[1])
              /\ calls[i].timer = calls[i].timeout
        /\ calls[i].mode = "background" =>
              /\ calls[i].timeout = 0
              /\ calls[i].timer = 0

\* a bounded call with a supplied timeout of 0 runs under the default deadline
C20_Witness ==
    \E i \in Calls :
        /\ calls[i].args.timeout = <<0>>
        /\ calls[i].mode = "bounded"
        /\ calls[i].timeout = 8

====
